---- MODULE Spec2Model ----
(***************************************************************************)
(* ScaledInteger (src/src/scaled-integer.ts): a mutable fixed-point        *)
(* decimal, an integer magnitude `_value` with `_scale` implied fractional *)
(* digits, stored in JavaScript numbers (IEEE-754 doubles).                *)
(*                                                                         *)
(* Numbers.  Every number the class stores or compares is an integer-      *)
(* valued double.  An integer is kept exactly as three limbs <<l0, l1, l2>>*)
(* of base 10^8 (value l0 + l1*10^8 + l2*10^16), all limbs carrying the    *)
(* sign of the number, so the real 2^53 - 1 bound of Number.isSafeInteger  *)
(* is used unscaled.  ToDouble rounds an exact integer to the nearest      *)
(* double, ties to even, as the hardware does for + and *.                 *)
(* `10 ** n` is an exact double for n <= 22 and finite for n <= 308; the   *)
(* scales of the model stay far below both (MaxScale).                     *)
(***************************************************************************)
EXTENDS Integers, Sequences, FiniteSets

VARIABLES self, other, last, nops, text

vars == <<self, other, last, nops, text>>

-----------------------------------------------------------------------------
(* Bounds of the model. *)

\* Largest scale an instance is constructed with or widened to.
MaxScale == 2

\* Number of method calls made on the receiver in one run.
MaxOps == 2

\* Longest string handed to parse.
MaxLen == 5

\* Longest argument list handed to normalize.
MaxArgs == 3

-----------------------------------------------------------------------------
(* Exact integers in three limbs. *)

LimbBase == 10 ^ 8

Sgn(n) == IF n > 0 THEN 1 ELSE IF n < 0 THEN -1 ELSE 0

Abs(n) == IF n < 0 THEN -n ELSE n

\* Division and remainder truncating toward zero (b > 0), as JavaScript's
\* integer arithmetic on doubles does (% takes the sign of the dividend).
TruncDiv(a, b) == IF a >= 0 THEN a \div b ELSE -((-a) \div b)

TruncRem(a, b) == a - b * TruncDiv(a, b)

Carry(x) ==
    LET l0 == TruncRem(x[1], LimbBase)
        t1 == x[2] + TruncDiv(x[1], LimbBase)
        l1 == TruncRem(t1, LimbBase)
        l2 == x[3] + TruncDiv(t1, LimbBase)
    IN  <<l0, l1, l2>>

NumSign(x) ==
    IF x[3] # 0 THEN Sgn(x[3]) ELSE IF x[2] # 0 THEN Sgn(x[2]) ELSE Sgn(x[1])

\* All limbs take the sign of the number (x has |l0|, |l1| < LimbBase).
Canon(x) ==
    LET s  == NumSign(x)
        b0 == IF s * x[1] < 0 THEN s ELSE 0
        l0 == x[1] + b0 * LimbBase
        t1 == x[2] - b0
        b1 == IF s * t1 < 0 THEN s ELSE 0
        l1 == t1 + b1 * LimbBase
        l2 == x[3] - b1
    IN  <<l0, l1, l2>>

Norm(x) == Canon(Carry(x))

Num(n) == Norm(<<n, 0, 0>>)

Zero == <<0, 0, 0>>

One == <<1, 0, 0>>

NumNeg(x) == <<-x[1], -x[2], -x[3]>>

NumAbs(x) == IF NumSign(x) < 0 THEN NumNeg(x) ELSE x

NumAdd(x, y) == Norm(<<x[1] + y[1], x[2] + y[2], x[3] + y[3]>>)

NumSub(x, y) == NumAdd(x, NumNeg(y))

NumLess(x, y) ==
    \/ x[3] < y[3]
    \/ x[3] = y[3] /\ x[2] < y[2]
    \/ x[3] = y[3] /\ x[2] = y[2] /\ x[1] < y[1]

NumLeq(x, y) == x = y \/ NumLess(x, y)

Times(x, c) == Norm(<<x[1] * c, x[2] * c, x[3] * c>>)

\* Truncating division by a small c > 0.
DivSmall(x, c) ==
    LET l2 == TruncDiv(x[3], c)
        t1 == x[2] + TruncRem(x[3], c) * LimbBase
        l1 == TruncDiv(t1, c)
        t0 == x[1] + TruncRem(t1, c) * LimbBase
        l0 == TruncDiv(t0, c)
    IN  <<l0, l1, l2>>

RECURSIVE TimesPow10(_, _)
TimesPow10(x, n) == IF n = 0 THEN x ELSE TimesPow10(Times(x, 10), n - 1)

RECURSIVE DivPow10(_, _)
DivPow10(x, n) == IF n = 0 THEN x ELSE DivPow10(DivSmall(x, 10), n - 1)

\* x - trunc(x / 10^n) * 10^n: the remainder with the sign of x.
RemPow10(x, n) == NumSub(x, TimesPow10(DivPow10(x, n), n))

IsOdd(x) == x[1] % 2 = 1

-----------------------------------------------------------------------------
(* Doubles. *)

\* Number.MAX_SAFE_INTEGER = 2^53 - 1 = 9007199254740991.
MAX_SAFE_INTEGER == <<54740991, 90071992, 0>>

Two53 == NumAdd(MAX_SAFE_INTEGER, One)

\* The 53-bit significand of m >= 0: halve until below 2^53, remembering the
\* last bit dropped (half) and whether any earlier dropped bit was set.
RECURSIVE Significand(_, _, _, _)
Significand(m, shift, half, sticky) ==
    IF NumLess(m, Two53)
    THEN [m |-> m, shift |-> shift, half |-> half, sticky |-> sticky]
    ELSE Significand(DivSmall(m, 2), shift + 1, IsOdd(m), sticky \/ half)

RECURSIVE TimesPow2(_, _)
TimesPow2(x, n) == IF n = 0 THEN x ELSE TimesPow2(Times(x, 2), n - 1)

\* Round to nearest, ties to even.
RoundMagnitude(m) ==
    LET s  == Significand(m, 0, FALSE, FALSE)
        up == s.half /\ (s.sticky \/ IsOdd(s.m))
    IN  TimesPow2(IF up THEN NumAdd(s.m, One) ELSE s.m, s.shift)

ToDouble(x) ==
    IF NumSign(x) < 0 THEN NumNeg(RoundMagnitude(NumNeg(x))) ELSE RoundMagnitude(x)

\* a + b on doubles.
JsAdd(x, y) == ToDouble(NumAdd(x, y))

\* a - b on doubles.
JsSub(x, y) == ToDouble(NumSub(x, y))

\* x * 10 ** n, n >= 0 (10 ** n is exact, so the product is rounded once).
JsTimesPow10(x, n) == ToDouble(TimesPow10(x, n))

\* x % 10 ** n, n >= 0: exact on doubles.
JsRemPow10(x, n) == RemPow10(x, n)

\* Number.isSafeInteger(x) for an integer-valued x.
IsSafeInteger(x) == NumLeq(NumAbs(x), MAX_SAFE_INTEGER)

-----------------------------------------------------------------------------
(* The class: an instance is its two private fields. *)

Instance(value, scale) == [value |-> value, scale |-> scale]

\* What a call leaves behind: the receiver after it, whether it returned or
\* threw, and the value returned.
Returned(obj, ret) == [obj |-> obj, status |-> "ok", ret |-> ret]

Thrown(obj, message) == [obj |-> obj, status |-> "throw", ret |-> message]

\* `return this`.
This == "this"

\* constructor(value, scale): both must be safe integers, scale >= 0.  The
\* scales of the model are integers far inside the safe range.
ConstructorAccepts(value, scale) == IsSafeInteger(value) /\ scale >= 0

\* this._value * 10 ** (otherScale - this._scale); every caller passes
\* otherScale >= this._scale.
UnsafelyGetRelativeValue(x, otherScale) ==
    JsTimesPow10(x.value, otherScale - x.scale)

\* [[lhs, rhs], scale]: both magnitudes at the larger of the two scales.
normalizedValues(a, b) ==
    IF a.scale < b.scale
    THEN [lhs |-> UnsafelyGetRelativeValue(a, b.scale), rhs |-> b.value,
          scale |-> b.scale]
    ELSE [lhs |-> a.value, rhs |-> UnsafelyGetRelativeValue(b, a.scale),
          scale |-> a.scale]

\* equal comparing the stored magnitudes without normalizing them.
equal_IgnoresScale(a, b) == a.value = b.value

equal(a, b) ==
    IF a.scale > b.scale
    THEN a.value = UnsafelyGetRelativeValue(b, a.scale)
    ELSE UnsafelyGetRelativeValue(a, b.scale) = b.value

Ordering(aValue, bValue) ==
    IF NumLess(aValue, bValue) THEN -1 ELSE IF aValue = bValue THEN 0 ELSE 1

\* compare ordering the stored magnitudes without normalizing them.
compare_IgnoresScale(a, b) == Ordering(a.value, b.value)

compare(a, b) ==
    IF a.scale > b.scale
    THEN Ordering(a.value, UnsafelyGetRelativeValue(b, a.scale))
    ELSE Ordering(UnsafelyGetRelativeValue(a, b.scale), b.value)

lessThan(a, b) == compare(a, b) = -1

lessThanOrEqual(a, b) == LET c == compare(a, b) IN c = 0 \/ c = -1

greaterThanOrEqual(a, b) == LET c == compare(a, b) IN c = 0 \/ c = 1

greaterThan(a, b) == compare(a, b) = 1

\* The double _value * 10 ** -digits, digits > 0: in general not an integer;
\* it is named by its two factors.
ScaledDown(value, digits) == [factor |-> value, digits |-> digits]

getRelativeValue(x, o) ==
    IF x.scale < o.scale
    THEN Thrown(x, "other scale must be greater")
    ELSE IF o.scale = x.scale
         THEN Returned(x, x.value)
         ELSE Returned(x, ScaledDown(x.value, x.scale - o.scale))

increaseScale(x, scaleIncrement) ==
    Returned(Instance(JsTimesPow10(x.value, scaleIncrement),
                      x.scale + scaleIncrement), This)

\* y / 10 ** n where 10^n divides y: the quotient is an integer (Math.floor
\* of it is itself).
JsDivPow10(y, n) == ToDouble(DivPow10(y, n))

\* transformScale with a floored remainder (never negative) in place of the
\* truncated one.
transformScale_FlooredRemainder(x, newScale) ==
    IF newScale > x.scale
    THEN increaseScale(x, newScale - x.scale)
    ELSE LET truncatedScale == x.scale - newScale
             r == JsRemPow10(x.value, truncatedScale)
             truncated ==
                 IF NumSign(r) < 0
                 THEN NumAdd(r, TimesPow10(One, truncatedScale))
                 ELSE r
         IN  Returned(Instance(JsDivPow10(JsSub(x.value, truncated),
                                          truncatedScale), newScale),
                      truncated)

transformScale(x, newScale) ==
    IF newScale > x.scale
    THEN increaseScale(x, newScale - x.scale)
    ELSE LET truncatedScale == x.scale - newScale
             truncated == JsRemPow10(x.value, truncatedScale)
         IN  Returned(Instance(JsDivPow10(JsSub(x.value, truncated),
                                             truncatedScale), newScale),
                      truncated)

\* The division of transformScale is exact: always, for a safe integer.
DivisionIsExact(x, newScale) ==
    IF newScale > x.scale
    THEN TRUE
    ELSE LET n == x.scale - newScale
         IN  RemPow10(JsSub(x.value, JsRemPow10(x.value, n)), n) = Zero

normalizeTo(x, o) ==
    IF x.scale < o.scale
    THEN Returned(transformScale(x, o.scale).obj, This)
    ELSE Returned(x, This)

\* clone(): the constructor runs again on the receiver's own fields.
clone(x) ==
    IF ConstructorAccepts(x.value, x.scale)
    THEN Returned(Instance(x.value, x.scale), This)
    ELSE Thrown(x, "unsafe integer value")

\* The loop of maximumScale.  `values` is the rest parameter, `i` the
\* JavaScript index into it (values[i] is the (i + 1)-th element here); the
\* local maxScale is max.scale throughout.  Returns [i, max].
RECURSIVE MaximumScaleLoop(_, _, _)
MaximumScaleLoop(values, i, max) ==
    IF i < Len(values)
    THEN LET item == values[i + 1]
         IN  MaximumScaleLoop(values, i + 1,
                              IF item.scale > max.scale THEN item ELSE max)
    ELSE <<i, max>>

maximumScale(first, values) == MaximumScaleLoop(values, 1, first)

\* normalize(...values): the element at the returned index is pushed as it
\* is, every other one is cloned and widened to `max`.  A clone that throws
\* ends the call.
normalize(values) ==
    LET length == Len(values)
    IN  IF length = 0
        THEN [status |-> "ok", ret |-> <<>>]
        ELSE LET found == maximumScale(values[1], Tail(values))
                 maxIndex == found[1]
                 max == found[2]
                 cloned == {i \in 0 .. length - 1 : i # maxIndex}
             IN  IF \E i \in cloned : clone(values[i + 1]).status = "throw"
                 THEN [status |-> "throw", ret |-> "unsafe integer value"]
                 ELSE [status |-> "ok",
                       ret |-> [j \in 1 .. length |->
                                   IF j - 1 = maxIndex
                                   THEN values[j]
                                   ELSE normalizeTo(clone(values[j]).obj,
                                                    max).obj]]

\* The loop of trimScale: the number of trailing zero digits, at most _scale.
RECURSIVE TrimCount(_, _, _)
TrimCount(value, scale, i) ==
    IF i < scale /\ JsRemPow10(value, i + 1) = Zero
    THEN TrimCount(value, scale, i + 1)
    ELSE i

trimScale(x) ==
    LET i == TrimCount(x.value, x.scale, 0)
    IN  Returned(Instance(JsDivPow10(x.value, i), x.scale - i), This)

\* add with the assignment moved before the overflow check.
add_AssignsBeforeCheck(x, o) ==
    LET n == normalizedValues(x, o)
        value == JsAdd(n.lhs, n.rhs)
    IN  IF ~IsSafeInteger(value)
        THEN Thrown(Instance(value, n.scale), "addition overflow")
        ELSE Returned(Instance(value, n.scale), This)

add(x, o) ==
    LET n == normalizedValues(x, o)
        value == JsAdd(n.lhs, n.rhs)
    IN  IF ~IsSafeInteger(value)
        THEN Thrown(x, "addition overflow")
        ELSE Returned(Instance(value, n.scale), This)

subtract(x, o) ==
    LET n == normalizedValues(x, o)
        value == JsAdd(n.lhs, n.rhs)
    IN  IF ~IsSafeInteger(value)
        THEN Thrown(x, "subtraction overflow")
        ELSE Returned(Instance(value, n.scale), This)

multiply(x, o) ==
    LET n == normalizedValues(x, o)
        value == JsAdd(n.lhs, n.rhs)
    IN  IF ~IsSafeInteger(value)
        THEN Thrown(x, "multiplication overflow")
        ELSE Returned(Instance(value, n.scale), This)

-----------------------------------------------------------------------------
(* Strings: sequences of one-character strings. *)

DigitChars == <<"0", "1", "2", "3", "4", "5", "6", "7", "8", "9">>

IsDigit(c) == \E d \in 1 .. 10 : DigitChars[d] = c

DigitValue(c) == (CHOOSE d \in 1 .. 10 : DigitChars[d] = c) - 1

AllDigits(str) == \A i \in 1 .. Len(str) : IsDigit(str[i])

\* trimStart(str, char): the loop counts the leading chars, slice drops them.
RECURSIVE LeadingCount(_, _, _)
LeadingCount(str, char, i) ==
    IF i < Len(str) /\ str[i + 1] = char THEN LeadingCount(str, char, i + 1) ELSE i

trimStart(str, char) ==
    LET i == LeadingCount(str, char, 0)
    IN  IF i > 0 THEN SubSeq(str, i + 1, Len(str)) ELSE str

\* trimEnd(str, char): the loop walks down from the last index (1-based
\* here) to the last char that is not `char`, or to 0.
RECURSIVE LastKept(_, _, _)
LastKept(str, char, i) ==
    IF i >= 1 /\ str[i] = char THEN LastKept(str, char, i - 1) ELSE i

trimEnd(str, char) ==
    LET i == LastKept(str, char, Len(str))
    IN  IF i < Len(str) THEN SubSeq(str, 1, i) ELSE str

\* x || '0' on a string: the empty string is falsy.
OrZero(str) == IF str = <<>> THEN <<"0">> ELSE str

\* +str for a string of decimal digits (short enough to be exact).
RECURSIVE DigitsToNumber(_, _)
DigitsToNumber(str, acc) ==
    IF str = <<>>
    THEN acc
    ELSE DigitsToNumber(Tail(str), NumAdd(Times(acc, 10), Num(DigitValue(Head(str)))))

ToNumber(str) == DigitsToNumber(str, Zero)

\* Number.prototype.toString() of a non-negative integer below 10^21.
RECURSIVE MagnitudeToString(_, _)
MagnitudeToString(m, acc) ==
    LET digit == DigitChars[RemPow10(m, 1)[1] + 1]
        rest == DivSmall(m, 10)
    IN  IF rest = Zero THEN <<digit>> \o acc
        ELSE MagnitudeToString(rest, <<digit>> \o acc)

NumberToString(x) ==
    IF NumSign(x) < 0
    THEN <<"-">> \o MagnitudeToString(NumNeg(x), <<>>)
    ELSE MagnitudeToString(x, <<>>)

\* str.padStart(n, '0').
RECURSIVE padStart(_, _)
padStart(str, n) == IF Len(str) >= n THEN str ELSE padStart(<<"0">> \o str, n)

\* The groups of a match of
\*   /^(?<sign>[-+]?)(?<major>[0-9]X)(\.(?<minor>[0-9]X))?$/
\* X = + (strict) or * (lax).  The optional third group starts at the first
\* '.', the only place the pattern admits one; `minor` stays undefined when
\* that group does not take part.
Undefined == "undefined"

NoMatch == [matched |-> FALSE]

SignOfString(str) ==
    IF str # <<>> /\ str[1] \in {"-", "+"} THEN <<str[1]>> ELSE <<>>

FirstDot(str) ==
    IF \E i \in 1 .. Len(str) : str[i] = "."
    THEN CHOOSE i \in 1 .. Len(str) :
            str[i] = "." /\ \A j \in 1 .. i - 1 : str[j] # "."
    ELSE 0

Match(str, strict) ==
    LET sign == SignOfString(str)
        body == SubSeq(str, Len(sign) + 1, Len(str))
        dot == FirstDot(body)
        major == IF dot = 0 THEN body ELSE SubSeq(body, 1, dot - 1)
        minor == IF dot = 0 THEN Undefined ELSE SubSeq(body, dot + 1, Len(body))
        enough(group) == AllDigits(group) /\ (strict => group # <<>>)
    IN  IF enough(major) /\ (dot # 0 => enough(minor))
        THEN [matched |-> TRUE, sign |-> sign, major |-> major, minor |-> minor]
        ELSE NoMatch

\* new ScaledInteger(value, scale) at the end of parse and parseLax.
Construct(value, scale) ==
    IF ConstructorAccepts(value, scale)
    THEN Returned(Instance(value, scale), This)
    ELSE Thrown(Instance(Zero, 0), "unsafe integer value")

\* The body shared by parse and parseLax; they differ in the pattern and in
\* the scale of a zero fraction.  A result of -0 is kept as 0: no operation
\* of the class tells the two apart.
ParseWith(str, strict) ==
    LET groups == Match(str, strict)
        sign == groups.sign
        majorStr == OrZero(trimStart(groups.major, "0"))
        minorStr ==
            OrZero(trimEnd(IF groups.minor = Undefined THEN <<>> ELSE groups.minor,
                           "0"))
        major == ToNumber(majorStr)
        minor == ToNumber(minorStr)
        scale == IF strict /\ minor = Zero THEN 0 ELSE Len(minorStr)
        value == JsAdd(JsTimesPow10(major, scale), minor)
    IN  IF ~groups.matched
        THEN Thrown(Instance(Zero, 0), "invalid decimal string")
        ELSE Construct(IF sign = <<"-">> THEN NumNeg(value) ELSE value, scale)

parse(str) == ParseWith(str, TRUE)

\* parseLax with the pattern and the scale rule of parse.
parseLax_AsStrict(str) == ParseWith(str, TRUE)

parseLax(str) == ParseWith(str, FALSE)

\* [major, Math.abs(minor)]
toUnits(x) ==
    LET minor == JsRemPow10(x.value, x.scale)
        major == JsDivPow10(JsSub(x.value, minor), x.scale)
    IN  <<major, NumAbs(minor)>>

\* toString without the sign of a negative value whose major part is zero.
toString_DropsZeroSign(x) ==
    LET units == toUnits(x)
    IN  IF units[2] = Zero
        THEN NumberToString(units[1])
        ELSE NumberToString(units[1]) \o <<".">>
                \o padStart(NumberToString(units[2]), x.scale)

toString(x) ==
    LET units == toUnits(x)
        major == units[1]
        minor == units[2]
        zerosign == IF major = Zero /\ NumSign(x.value) < 0 THEN <<"-">> ELSE <<>>
    IN  IF minor = Zero
        THEN NumberToString(major)
        ELSE zerosign \o NumberToString(major) \o <<".">>
                \o padStart(NumberToString(minor), x.scale)

-----------------------------------------------------------------------------
(* The state machine: one receiver, one operand, method calls on the       *)
(* receiver.                                                               *)

\* Magnitudes handed to the constructor: small ones of both signs, with and
\* without trailing zeros, the two neighbours of MAX_SAFE_INTEGER / 10, the
\* safe-integer limits, and 2^53, which the constructor rejects.
ValueArgs ==
    { Zero, One, Num(-1), Num(-120), Num(123456),
      <<25474099, 9007199, 0>>, <<25474100, 9007199, 0>>,
      MAX_SAFE_INTEGER, NumNeg(MAX_SAFE_INTEGER), Two53 }

OperandValueArgs ==
    { Zero, One, Num(-1), Num(-120), Num(123456), MAX_SAFE_INTEGER }

ScaleArgs == -1 .. MaxScale

Receivers ==
    { Instance(v, s) : <<v, s>> \in
        { p \in ValueArgs \X ScaleArgs : ConstructorAccepts(p[1], p[2]) } }

Operands ==
    { Instance(v, s) : <<v, s>> \in
        { p \in OperandValueArgs \X ScaleArgs : ConstructorAccepts(p[1], p[2]) } }

NoText == <<>>

Call(op, arg, r) ==
    /\ nops < MaxOps
    /\ nops' = nops + 1
    /\ self' = r.obj
    /\ last' = [op |-> op, arg |-> arg, pre |-> self, status |-> r.status,
                ret |-> r.ret]
    /\ UNCHANGED <<other, text>>

Init ==
    /\ self \in Receivers
    /\ other \in Operands
    /\ last = [op |-> "new", arg |-> 0, pre |-> self, status |-> "ok",
               ret |-> This]
    /\ nops = 0
    /\ text = NoText

IncreaseScale ==
    \E k \in 0 .. MaxScale :
        /\ self.scale + k <= MaxScale
        /\ Call("increaseScale", k, increaseScale(self, k))

\* newScale is any integer: the method does not check it.
TransformScale ==
    \E newScale \in -1 .. MaxScale :
        /\ DivisionIsExact(self, newScale)
        /\ Call("transformScale", newScale, transformScale(self, newScale))

TrimScale == Call("trimScale", 0, trimScale(self))

NormalizeTo == Call("normalizeTo", other, normalizeTo(self, other))

Add == Call("add", other, add(self, other))

Subtract == Call("subtract", other, subtract(self, other))

Multiply == Call("multiply", other, multiply(self, other))

GetRelativeValue == Call("getRelativeValue", other, getRelativeValue(self, other))

Equal == Call("equal", other, Returned(self, equal(self, other)))

Compare == Call("compare", other, Returned(self, compare(self, other)))

LessThan == Call("lessThan", other, Returned(self, lessThan(self, other)))

LessThanOrEqual ==
    Call("lessThanOrEqual", other, Returned(self, lessThanOrEqual(self, other)))

GreaterThanOrEqual ==
    Call("greaterThanOrEqual", other, Returned(self, greaterThanOrEqual(self, other)))

GreaterThan == Call("greaterThan", other, Returned(self, greaterThan(self, other)))

Next ==
    \/ IncreaseScale
    \/ TransformScale
    \/ TrimScale
    \/ NormalizeTo
    \/ Add
    \/ Subtract
    \/ Multiply
    \/ GetRelativeValue
    \/ Equal
    \/ Compare
    \/ LessThan
    \/ LessThanOrEqual
    \/ GreaterThanOrEqual
    \/ GreaterThan

Spec == Init /\ [][Next]_vars

-----------------------------------------------------------------------------
(* Parsing and printing: a string is parsed, the instance is printed. *)

Chars == {"-", "+", ".", "0", "1", "5"}

Strings == UNION { [1 .. n -> Chars] : n \in 0 .. MaxLen }

InitParse ==
    /\ self = Instance(Zero, 0)
    /\ other = Instance(Zero, 0)
    /\ last = [op |-> "none", arg |-> 0, pre |-> self, status |-> "ok",
               ret |-> This]
    /\ nops = 0
    /\ text = NoText

Parsed(op, str, r) ==
    /\ text' = str
    /\ self' = r.obj
    /\ last' = [op |-> op, arg |-> 0, pre |-> self, status |-> r.status,
                ret |-> r.ret]
    /\ UNCHANGED <<other, nops>>

Parse ==
    /\ last.op = "none"
    /\ \E str \in Strings : Parsed("parse", str, parse(str))

ParseLax ==
    /\ last.op = "none"
    /\ \E str \in Strings : Parsed("parseLax", str, parseLax(str))

Stringify ==
    /\ last.op \in {"parse", "parseLax"}
    /\ last.status = "ok"
    /\ last' = [op |-> "toString", arg |-> last.op, pre |-> self,
                status |-> "ok", ret |-> toString(self)]
    /\ UNCHANGED <<self, other, nops, text>>

NextParse == Parse \/ ParseLax \/ Stringify

SpecParse == InitParse /\ [][NextParse]_vars

-----------------------------------------------------------------------------
(* Normalizing: a list of constructed instances is handed to normalize. *)

NormalizeValueArgs == {Zero, One, Num(-120), MAX_SAFE_INTEGER}

NormalizeArgs ==
    {Instance(v, s) : v \in NormalizeValueArgs, s \in 0 .. MaxScale}

ArgLists == UNION { [1 .. n -> NormalizeArgs] : n \in 0 .. MaxArgs }

InitNormalize ==
    /\ self = Instance(Zero, 0)
    /\ other = Instance(Zero, 0)
    /\ last = [op |-> "none", arg |-> 0, pre |-> self, status |-> "ok",
               ret |-> This]
    /\ nops = 0
    /\ text = NoText

Normalize ==
    /\ last.op = "none"
    /\ \E values \in ArgLists :
           LET r == normalize(values)
           IN  last' = [op |-> "normalize", arg |-> values, pre |-> self,
                        status |-> r.status, ret |-> r.ret]
    /\ UNCHANGED <<self, other, nops, text>>

NextNormalize == Normalize

SpecNormalize == InitNormalize /\ [][NextNormalize]_vars

-----------------------------------------------------------------------------
(* Exact decimal arithmetic, to state the properties against. *)

\* The data model's invariant of an instance.
Valid(x) == x.scale >= 0 /\ IsSafeInteger(x.value)

MaxOf(m, n) == IF m > n THEN m ELSE n

\* ma * 10^(S - sa) + mb * 10^(S - sb), S the larger scale, in exact integers.
MathSum(a, b) ==
    LET S == MaxOf(a.scale, b.scale)
    IN  NumAdd(TimesPow10(a.value, S - a.scale), TimesPow10(b.value, S - b.scale))

\* ma * 10^(S - sa) - mb * 10^(S - sb).
MathDifference(a, b) ==
    LET S == MaxOf(a.scale, b.scale)
    IN  NumSub(TimesPow10(a.value, S - a.scale), TimesPow10(b.value, S - b.scale))

\* The sign of ma * 10^sb - mb * 10^sa, that is of a's decimal value minus b's.
MathCompare(a, b) ==
    NumSign(NumSub(TimesPow10(a.value, b.scale), TimesPow10(b.value, a.scale)))

\* x * y for x, y >= 0 by binary long multiplication; any number outside the
\* safe range when the product is outside it.
RECURSIVE MulAcc(_, _, _)
MulAcc(x, y, acc) ==
    IF y = Zero THEN acc
    ELSE IF ~IsSafeInteger(x) \/ ~IsSafeInteger(acc) THEN Two53
    ELSE MulAcc(Times(x, 2), DivSmall(y, 2), IF IsOdd(y) THEN NumAdd(acc, x) ELSE acc)

MathProduct(x, y) ==
    LET p == MulAcc(NumAbs(x), NumAbs(y), Zero)
    IN  IF NumSign(x) * NumSign(y) < 0 THEN NumNeg(p) ELSE p

-----------------------------------------------------------------------------
(* Properties. *)

\* C1: a.add(b) on a valid receiver: with sum the exact
\* ma*10^(S-sa) + mb*10^(S-sb), S = max(sa, sb), the call returns and leaves
\* the receiver at (sum, S) when sum is a safe integer, and otherwise throws
\* and leaves the receiver as it was; the operand is untouched either way.
C1_AddIsExact ==
    (last.op = "add" /\ Valid(last.pre)) =>
        LET sum == MathSum(last.pre, other)
            S == MaxOf(last.pre.scale, other.scale)
        IN  /\ other = last.arg
            /\ IF IsSafeInteger(sum)
               THEN last.status = "ok" /\ self = Instance(sum, S)
               ELSE last.status = "throw" /\ self = last.pre

\* An addition across different scales that returned, and one that overflowed.
C1_Witness ==
    /\ last.op = "add"
    /\ last.status = "ok"
    /\ last.pre.scale < other.scale
    /\ last.pre.value # Zero
    /\ other.value # Zero
    /\ self.value # last.pre.value

\* C2: a.subtract(b) on a valid receiver whose exact difference
\* ma*10^(S-sa) - mb*10^(S-sb) is a safe integer leaves the receiver at
\* (difference, S); in particular subtracting an equal operand leaves zero.
C2_SubtractIsExact ==
    (/\ last.op = "subtract"
     /\ Valid(last.pre)
     /\ IsSafeInteger(MathDifference(last.pre, other))) =>
        /\ last.status = "ok"
        /\ self = Instance(MathDifference(last.pre, other),
                           MaxOf(last.pre.scale, other.scale))

\* C3: a.multiply(b) on a valid receiver whose exact product ma*mb is a safe
\* integer leaves the receiver at (ma*mb, sa+sb).
C3_MultiplyIsProduct ==
    (/\ last.op = "multiply"
     /\ Valid(last.pre)
     /\ IsSafeInteger(MathProduct(last.pre.value, other.value))) =>
        /\ last.status = "ok"
        /\ self = Instance(MathProduct(last.pre.value, other.value),
                           last.pre.scale + other.scale)

\* C4: after construction with valid arguments and any sequence of calls, the
\* receiver's scale is >= 0 and its magnitude is a safe integer.
C4_InstanceStaysValid == Valid(self)

\* C5: compare(a, b) on valid instances is the sign of ma*10^sb - mb*10^sa:
\* it orders by decimal value whatever the representation; compare(x, x) = 0,
\* compare(a, b) = -compare(b, a), compare is transitive, and lessThan,
\* lessThanOrEqual, greaterThanOrEqual and greaterThan agree with it.
C5_CompareIsDecimalOrder ==
    Valid(last.pre) =>
        LET a == last.pre
            b == other
            c == MathCompare(a, b)
        IN  /\ last.op = "compare" =>
                /\ last.ret = c
                /\ compare(a, a) = 0 /\ compare(b, b) = 0
                /\ compare(b, a) = -last.ret
                /\ \A z \in Operands :
                      (last.ret <= 0 /\ compare(b, z) <= 0) => compare(a, z) <= 0
            /\ last.op = "lessThan" => last.ret = (c = -1)
            /\ last.op = "lessThanOrEqual" => last.ret = (c <= 0)
            /\ last.op = "greaterThanOrEqual" => last.ret = (c >= 0)
            /\ last.op = "greaterThan" => last.ret = (c = 1)

\* A comparison across scales where the larger stored magnitude is the
\* smaller decimal value.
C5_Witness ==
    /\ last.op = "compare"
    /\ last.pre.scale > other.scale
    /\ NumLess(other.value, last.pre.value)
    /\ last.ret = -1

\* C6: on valid instances equal(x, x) holds, equal(a, b) = equal(b, a), and
\* trimScale() or an increaseScale(k) that leaves a valid instance, applied to
\* an operand, does not change equal in either argument order.
C6_EqualIsRepresentationFree ==
    Valid(self) =>
        /\ equal(self, self)
        /\ equal(other, other)
        /\ equal(self, other) = equal(other, self)
        /\ (last.op \in {"trimScale", "increaseScale"} /\ Valid(last.pre)) =>
              /\ equal(self, other) = equal(last.pre, other)
              /\ equal(other, self) = equal(other, last.pre)

\* An increaseScale that changed the magnitude of a receiver equal to the
\* operand.
C6_Witness ==
    /\ last.op = "increaseScale"
    /\ last.arg > 0
    /\ Valid(self)
    /\ self.value # last.pre.value
    /\ equal(self, other)

\* C7: the canonical rendering of a strict-grammar string, from its text: '-'
\* when some digit is non-zero and the sign is '-', the integer digits
\* without redundant leading zeros, and, when a fractional digit is non-zero,
\* '.' and the fractional digits without their trailing zeros.
LeadingZeros(digits) ==
    CHOOSE k \in 0 .. Len(digits) :
        /\ \A i \in 1 .. k : digits[i] = "0"
        /\ k < Len(digits) => digits[k + 1] # "0"

TrailingZeros(digits) ==
    CHOOSE k \in 0 .. Len(digits) :
        /\ \A i \in Len(digits) - k + 1 .. Len(digits) : digits[i] = "0"
        /\ k < Len(digits) => digits[Len(digits) - k] # "0"

Canonical(str) ==
    LET signed == str[1] \in {"-", "+"}
        body == IF signed THEN Tail(str) ELSE str
        dot == FirstDot(body)
        int == IF dot = 0 THEN body ELSE SubSeq(body, 1, dot - 1)
        frac == IF dot = 0 THEN <<>> ELSE SubSeq(body, dot + 1, Len(body))
        intKept ==
            IF LeadingZeros(int) = Len(int)
            THEN <<"0">>
            ELSE SubSeq(int, LeadingZeros(int) + 1, Len(int))
        fracKept == SubSeq(frac, 1, Len(frac) - TrailingZeros(frac))
        nonZero == \E i \in 1 .. Len(body) : body[i] \notin {"0", "."}
    IN  (IF str[1] = "-" /\ nonZero THEN <<"-">> ELSE <<>>)
            \o intKept
            \o (IF fracKept = <<>> THEN <<>> ELSE <<".">> \o fracKept)

C7_ParseToStringIsCanonical ==
    (last.op = "toString" /\ last.arg = "parse") => last.ret = Canonical(text)

\* A negative value with a zero integer part, parsed from a string that is
\* not canonical.
C7_Witness ==
    /\ last.op = "toString"
    /\ last.arg = "parse"
    /\ last.ret = <<"-", "0", ".", "5">>
    /\ text # last.ret

\* C8: increaseScale(k), k >= 0, on a valid receiver throws when m*10^k is
\* outside the safe range, and otherwise leaves the receiver at (m*10^k, s+k).
C8_IncreaseScaleChecksOverflow ==
    (last.op = "increaseScale" /\ Valid(last.pre)) =>
        LET product == TimesPow10(last.pre.value, last.arg)
        IN  IF IsSafeInteger(product)
            THEN /\ last.status = "ok"
                 /\ self = Instance(product, last.pre.scale + last.arg)
            ELSE last.status = "throw"

\* C9: transformScale(newScale), 0 <= newScale <= s, on a valid receiver
\* (m, s) returns r and leaves (m', newScale) with m = m'*10^d + r,
\* d = s - newScale, |r| < 10^d, r zero or of the sign of m; increaseScale(d)
\* then restores (m, s) exactly when r = 0.
C9_TransformScaleTruncates ==
    (/\ last.op = "transformScale"
     /\ Valid(last.pre)
     /\ last.arg <= last.pre.scale) =>
        LET m == last.pre.value
            d == last.pre.scale - last.arg
            r == last.ret
        IN  /\ last.status = "ok"
            /\ self.scale = last.arg
            /\ m = NumAdd(TimesPow10(self.value, d), r)
            /\ NumLess(NumAbs(r), TimesPow10(One, d))
            /\ r = Zero \/ NumSign(r) = NumSign(m)
            /\ (increaseScale(self, d).obj = last.pre) <=> (r = Zero)

\* A narrowing of a negative magnitude that discarded non-zero digits.
C9_Witness ==
    /\ last.op = "transformScale"
    /\ last.arg < last.pre.scale
    /\ Valid(last.pre)
    /\ NumSign(last.pre.value) < 0
    /\ last.ret # Zero

\* C10: getRelativeValue(target) throws when the target's scale t is below
\* the receiver's scale s, otherwise returns m*10^(t-s); the receiver is
\* unchanged.
C10_GetRelativeValueOnlyWidens ==
    (last.op = "getRelativeValue" /\ Valid(last.pre)) =>
        /\ self = last.pre
        /\ IF other.scale < last.pre.scale
           THEN last.status = "throw"
           ELSE /\ last.status = "ok"
                /\ last.ret = JsTimesPow10(last.pre.value,
                                           other.scale - last.pre.scale)

\* The largest scale among the elements of a non-empty list.
MaxScaleOf(values) ==
    CHOOSE m \in {values[i].scale : i \in 1 .. Len(values)} :
        \A i \in 1 .. Len(values) : values[i].scale <= m

\* C11: normalize of a non-empty list of valid instances returns a list of
\* the same length in which every element has the largest scale of the
\* inputs and the decimal value of the input at its position.
C11_NormalizeAlignsScales ==
    (/\ last.op = "normalize"
     /\ Len(last.arg) > 0) =>
        /\ last.status = "ok"
        /\ Len(last.ret) = Len(last.arg)
        /\ \A i \in 1 .. Len(last.arg) :
               /\ last.ret[i].scale = MaxScaleOf(last.arg)
               /\ MathCompare(last.ret[i], last.arg[i]) = 0

\* The fractional digits of a string, without their trailing zeros: the
\* digits after the dot, none when there is no dot.
FractionKept(str) ==
    LET signed == str # <<>> /\ str[1] \in {"-", "+"}
        body == IF signed THEN Tail(str) ELSE str
        dot == FirstDot(body)
        frac == IF dot = 0 THEN <<>> ELSE SubSeq(body, dot + 1, Len(body))
    IN  SubSeq(frac, 1, Len(frac) - TrailingZeros(frac))

\* C12, as stated: parseLax returns a scale equal to the length of the
\* fractional digits after trailing-zero trimming, which is 0 when the
\* fractional group is absent or empty.
C12_ParseLaxScaleIsTrimmedLength ==
    (last.op = "parseLax" /\ last.status = "ok") =>
        self.scale = Len(FractionKept(text))

\* C12, amended: parseLax returns a scale equal to the length of the
\* fractional digits after trailing-zero trimming, except that the scale is
\* 1 when no fractional digit is left (the group is absent, empty or all
\* zeros).
C12_ParseLaxScaleIsAtLeastOne ==
    (last.op = "parseLax" /\ last.status = "ok") =>
        self.scale = IF FractionKept(text) = <<>>
                     THEN 1
                     ELSE Len(FractionKept(text))

\* parseLax of a string without a fraction, and of one with trailing zeros.
C12_Witness ==
    /\ last.op = "parseLax"
    /\ last.status = "ok"
    /\ \/ text = <<"1">> /\ self = Instance(Num(10), 1)
       \/ text = <<"1", ".", "5", "0">> /\ self = Instance(Num(15), 1)

====
